---- MODULE Spec2Model ----
(***************************************************************************)
(* Technology choice model on a network (final_market_share.py).           *)
(* One Simulation object: its constructor, the time loop of run(), the     *)
(* choice of an Agent, and return_results().                               *)
(***************************************************************************)
EXTENDS Integers, Sequences, FiniteSets, TLC

(* ---------------------------- bounds ----------------------------------- *)
MaxAgents == 3
MaxTech == 2
MaxInit == 1
MaxT == 1
MaxRuns == 1
MaxShares == 3
MaxCount == 3
MaxExperimentAgents == 6
MaxReplications == 2

(* ------------------------ program constants ---------------------------- *)
BarabasiAlbert_m == 40
WattsStrogatz_k == 40
Default_n_agents == 1000
Default_n_technologies == 3
Default_n_initial_adopters == 2
Default_reconsideration_probability == 20
Default_choice_function_exponent == 2
Default_t_max == 5000

\* Python None, kept apart from every technology id, agent id and time index
None == 0 - 1
NoError == "NoError"

(* Arguments a caller may pass to Simulation(...).  Probabilities and the  *)
(* draws of np.random.random() are counted in hundredths.                  *)
AgentCounts == 0..MaxAgents
TechCounts == 1..MaxTech
InitialAdopterCounts == 0..MaxInit
Horizons == (0 - 1)..MaxT
ReconsiderationProbabilities == {0, 50, 150}
Exponents == {0, 2}
NetworkTypes == {"Erdos-Renyi", "Barabasi-Albert", "Watts-Strogatz", "Ring"}
RandomDraws == {0, 99}

VARIABLES
    n_agents, t_max, n_technologies, n_initial_adopters,
    reconsideration_probability, choice_function_exponent, network_type,
    phase,                  \* "new", "failed", "idle", "running"
    error,                  \* exception raised by the constructor, or NoError
    technologies_list,      \* sequence of technology ids
    tech_frequency,         \* technology -> counter
    G,                      \* set of undirected edges {i, j}
    technology,             \* agent id -> technology or None
    history_tech_frequency, \* technology -> sequence of shares
    history_t,              \* sequence of time indices
    t,                      \* loop variable of run()
    A, chose, old, new,     \* locals of the last executed step of run()
    steps,                  \* iterations executed by the current/last run()
    runs,                   \* completed calls of run()
    results,                \* dict returned by return_results(): key -> object reference
    agent_number, number_of_replications,  \* fields of the Experiment
    exp_phase,              \* Experiment.run: "new", "running", "done", "failed"
    replication,            \* loop variable of Experiment.run
    list_largest_m_shares, list_second_largest_m_shares,
    market_shares,          \* the shares handed to the statistics helper
    lms, slms,              \* the pair the statistics helper returned
    stats_status            \* "none", "returned", or the exception raised

params == <<n_agents, t_max, n_technologies, n_initial_adopters,
            reconsideration_probability, choice_function_exponent,
            network_type>>
engine == <<technologies_list, tech_frequency, G, technology,
            history_tech_frequency, history_t>>
locals == <<t, A, chose, old, new, steps>>
experiment == <<agent_number, number_of_replications, exp_phase, replication,
                list_largest_m_shares, list_second_largest_m_shares>>
statistics == <<market_shares, lms, slms, stats_status>>
vars == <<params, phase, error, engine, locals, runs, results,
          experiment, statistics>>

(* ----------------------------- helpers --------------------------------- *)
\* Python range(lo, hi)
range(lo, hi) == lo..(hi - 1)

\* list(range(n)) as a sequence
RangeList(n) == [i \in 1..n |-> i - 1]

\* Python int ** int for non-negative operands; 0 ** 0 is 1
RECURSIVE Pow(_, _)
Pow(b, e) == IF e = 0 THEN 1 ELSE b * Pow(b, e - 1)

\* np.sum over the values of a function with a finite domain
RECURSIVE SumOver(_, _)
SumOver(f, S) ==
    IF S = {} THEN 0
    ELSE LET x == CHOOSE y \in S : TRUE IN f[x] + SumOver(f, S \ {x})

\* Python true division a / b, kept as an exact fraction
Div(a, b) == <<a, b>>

Technologies == {technologies_list[i] : i \in DOMAIN technologies_list}
Agents == DOMAIN technology

(* ----------------------------- Agent ----------------------------------- *)
\* Agent.get_neighbors: the agents on the nodes adjacent to node id
get_neighbors(graph, id) == {j \in Agents : {id, j} \in graph}

(* ------------------------ Simulation.__init__ -------------------------- *)
\* every simple undirected graph on the nodes 0..n-1
SimpleGraphs(n) == SUBSET {e \in SUBSET range(0, n) : Cardinality(e) = 2}

\* variant: an unknown name falls back to the random topology
NetworkError_FallsBackToRandom(type, n) ==
    CASE type = "Barabasi-Albert" ->
            IF BarabasiAlbert_m >= 1 /\ BarabasiAlbert_m < n
            THEN NoError ELSE "NetworkXError"
      [] type = "Watts-Strogatz" ->
            IF WattsStrogatz_k > n THEN "NetworkXError" ELSE NoError
      [] OTHER -> NoError

\* the exception raised while generating the network, or NoError: networkx
\* rejects an attachment degree m >= n and a ring degree k > n, and an
\* unknown name reaches the failing assert of the last branch
NetworkError(type, n) ==
    CASE type = "Erdos-Renyi" -> NoError
      [] type = "Barabasi-Albert" ->
            IF BarabasiAlbert_m >= 1 /\ BarabasiAlbert_m < n
            THEN NoError ELSE "NetworkXError"
      [] type = "Watts-Strogatz" ->
            IF WattsStrogatz_k > n THEN "NetworkXError" ELSE NoError
      [] OTHER -> "AssertionError"

\* the graphs the generator may return: with an edge probability strictly
\* between 0 and 1 every simple graph on the n nodes is possible
NetworkGraphs(type, n) == SimpleGraphs(n)

\* np.random.choice(population, replace=False, size=size): the exception
SampleError(population, size) ==
    IF size > Cardinality(population) THEN "ValueError" ELSE NoError

\* variant: the draw is made with replacement
SampleWithReplacement(population, size) == [1..size -> population]

\* np.random.choice(population, replace=False, size=size): the possible draws
SampleWithoutReplacement(population, size) ==
    {s \in [1..size -> population] :
        \A i, j \in 1..size : i # j => s[i] # s[j]}

\* the exception raised by the constructor, in the order of its statements
ConstructionError(type, n, K, m) ==
    IF NetworkError(type, n) # NoError THEN NetworkError(type, n)
    ELSE IF SampleError(range(0, n), K * m) # NoError
         THEN SampleError(range(0, n), K * m)
    ELSE IF K > 0 /\ n = 0 THEN "ZeroDivisionError"
    ELSE NoError

\* the seeding loops: early_adopters.pop() takes from the end of the list
SeedTechnologies(n, early_adopters, tech_list, m) ==
    [a \in range(0, n) |->
        IF \E p \in DOMAIN early_adopters : early_adopters[p] = a
        THEN LET p == CHOOSE q \in DOMAIN early_adopters : early_adopters[q] = a
             IN tech_list[((Len(early_adopters) - p) \div m) + 1]
        ELSE None]

\* no Simulation object exists
NoSimulation ==
    /\ phase = "new"
    /\ error = NoError
    /\ technologies_list = <<>>
    /\ tech_frequency = <<>>
    /\ G = {}
    /\ technology = <<>>
    /\ history_tech_frequency = <<>>
    /\ history_t = <<>>
    /\ t = None /\ A = None /\ chose = FALSE /\ old = None /\ new = None
    /\ steps = 0
    /\ runs = 0
    /\ results = <<>>

\* the arguments of Simulation() when none is given
DefaultArguments ==
    /\ n_agents = Default_n_agents
    /\ t_max = Default_t_max
    /\ n_technologies = Default_n_technologies
    /\ n_initial_adopters = Default_n_initial_adopters
    /\ reconsideration_probability = Default_reconsideration_probability
    /\ choice_function_exponent = Default_choice_function_exponent
    /\ network_type = "Erdos-Renyi"

\* no Experiment object exists
NoExperiment ==
    /\ agent_number = 0
    /\ number_of_replications = 0
    /\ exp_phase = "new"
    /\ replication = None
    /\ list_largest_m_shares = <<>>
    /\ list_second_largest_m_shares = <<>>

\* the statistics helper has not been called
NoStatistics ==
    /\ market_shares = <<>>
    /\ lms = <<>>
    /\ slms = <<>>
    /\ stats_status = "none"

Init ==
    /\ n_agents \in AgentCounts
    /\ t_max \in Horizons
    /\ n_technologies \in TechCounts
    /\ n_initial_adopters \in InitialAdopterCounts
    /\ reconsideration_probability \in ReconsiderationProbabilities
    /\ choice_function_exponent \in Exponents
    /\ network_type \in NetworkTypes
    /\ NoSimulation
    /\ NoExperiment
    /\ NoStatistics

Simulation_init ==
    /\ phase = "new"
    /\ LET err == ConstructionError(network_type, n_agents, n_technologies,
                                    n_initial_adopters)
           tech_list == RangeList(n_technologies)
           techs == range(0, n_technologies)
       IN IF err # NoError
          THEN /\ phase' = "failed"
               /\ error' = err
               /\ UNCHANGED engine
          ELSE /\ phase' = "idle"
               /\ error' = NoError
               /\ technologies_list' = tech_list
               /\ G' \in NetworkGraphs(network_type, n_agents)
               /\ \E early_adopters \in SampleWithoutReplacement(
                        range(0, n_agents), n_technologies * n_initial_adopters) :
                    technology' = SeedTechnologies(n_agents, early_adopters,
                                                   tech_list, n_initial_adopters)
               /\ tech_frequency' = [tech \in techs |-> 0 + n_initial_adopters]
               /\ history_tech_frequency' =
                    [tech \in techs |-> <<Div(tech_frequency'[tech], n_agents)>>]
               /\ history_t' = <<0>>
    /\ UNCHANGED <<params, locals, runs, results, experiment, statistics>>

(* --------------------------- Agent.choose ------------------------------ *)
\* the distribution of technologies used by the direct neighbours
neighbor_tech_frequency(tech_of, graph, id) ==
    [tech \in Technologies |->
        Cardinality({j \in get_neighbors(graph, id) : tech_of[j] = tech})]

\* the unnormalised choice weights tech_frequency[tech] ** exponent
tech_probability(tech_of, graph, id, exponent) ==
    [tech \in Technologies |->
        Pow(neighbor_tech_frequency(tech_of, graph, id)[tech], exponent)]

\* variant: every entry can be drawn, whatever its probability
WeightedChoice_Any(weights) == DOMAIN weights

\* np.random.choice(tech_list, p=weights / sum): entries of probability 0
\* are never drawn
WeightedChoice(weights) == {tech \in DOMAIN weights : weights[tech] > 0}

\* variant: the pick is stored in a neighbour instead of the agent itself
choose_WritesNeighbour(tech_of, graph, id, exponent) ==
    LET weights == tech_probability(tech_of, graph, id, exponent)
        written == IF get_neighbors(graph, id) = {} THEN {id}
                   ELSE get_neighbors(graph, id)
    IN IF SumOver(weights, DOMAIN weights) > 0
       THEN {[technology |-> [tech_of EXCEPT ![j] = pick],
              old |-> tech_of[id], new |-> pick] :
                pick \in WeightedChoice(weights), j \in written}
       ELSE {[technology |-> tech_of, old |-> None, new |-> None]}

\* variant: an agent that cannot choose loses its technology
choose_ClearsOnNoChange(tech_of, graph, id, exponent) ==
    LET weights == tech_probability(tech_of, graph, id, exponent)
    IN IF SumOver(weights, DOMAIN weights) > 0
       THEN {[technology |-> [tech_of EXCEPT ![id] = pick],
              old |-> tech_of[id], new |-> pick] :
                pick \in WeightedChoice(weights)}
       ELSE {[technology |-> [tech_of EXCEPT ![id] = None],
              old |-> None, new |-> None]}

\* the possible outcomes of choose() for agent id: the technologies of all
\* agents afterwards and the returned pair
choose(tech_of, graph, id, exponent) ==
    LET weights == tech_probability(tech_of, graph, id, exponent)
    IN IF SumOver(weights, DOMAIN weights) > 0
       THEN {[technology |-> [tech_of EXCEPT ![id] = pick],
              old |-> tech_of[id], new |-> pick] :
                pick \in WeightedChoice(weights)}
       ELSE {[technology |-> tech_of, old |-> None, new |-> None]}

(* --------------------------- Simulation.run ---------------------------- *)
\* variant: the loop stops one iteration early
RunRange_Short(tmax) == range(0, tmax)

\* the values of t the loop of run() goes through
RunRange(tmax) == range(0, tmax + 1)

\* variant: the draw is compared with <=
Activated_Inclusive(tech, draw, probability) ==
    tech = None \/ draw <= probability

\* variant: an agent without technology also needs a successful draw
Activated_DrawOnly(tech, draw, probability) == draw < probability

\* the activation condition of a step; draw is np.random.random()
Activated(tech, draw, probability) == tech = None \/ draw < probability

\* variant: the counter of the old technology is not decremented
UpdateFrequency_NoDecrement(freq, o, n) ==
    IF n # None THEN [freq EXCEPT ![n] = @ + 1] ELSE freq

\* the counter updates after choose() returned (o, n)
UpdateFrequency(freq, o, n) ==
    LET dec == IF o # None THEN [freq EXCEPT ![o] = @ - 1] ELSE freq
    IN IF n # None THEN [dec EXCEPT ![n] = @ + 1] ELSE dec

\* variant: only the history of technology 0 gets a sample
RecordState_FirstOnly(history, freq, n) ==
    [tech \in DOMAIN history |->
        IF tech = 0 THEN Append(history[tech], Div(freq[tech], n))
        ELSE history[tech]]

\* the samples appended at the end of a step
RecordState(history, freq, n) ==
    [tech \in DOMAIN history |-> Append(history[tech], Div(freq[tech], n))]

\* run() is entered: the loop starts at the first value of its range
BeginRun ==
    /\ phase' = "running"
    /\ t' = 0
    /\ steps' = 0
    /\ UNCHANGED <<params, error, engine, A, chose, old, new, runs, results,
                   experiment, statistics>>

\* S.run() as Experiment.run calls it: once, on the engine just constructed
run_call ==
    /\ phase = "idle"
    /\ runs = 0
    /\ BeginRun

run_step ==
    /\ phase = "running"
    /\ t \in RunRange(t_max)
    /\ \E agent \in Agents, draw \in RandomDraws :
        /\ A' = agent
        /\ IF Activated(technology[agent], draw, reconsideration_probability)
           THEN /\ chose' = TRUE
                /\ \E outcome \in choose(technology, G, agent,
                                         choice_function_exponent) :
                    /\ technology' = outcome.technology
                    /\ old' = outcome.old
                    /\ new' = outcome.new
                    /\ tech_frequency' =
                         UpdateFrequency(tech_frequency, outcome.old, outcome.new)
           ELSE /\ chose' = FALSE
                /\ UNCHANGED <<technology, old, new, tech_frequency>>
    /\ history_tech_frequency' =
         RecordState(history_tech_frequency, tech_frequency', n_agents)
    /\ history_t' = Append(history_t, t)
    /\ t' = t + 1
    /\ steps' = steps + 1
    /\ UNCHANGED <<params, phase, error, technologies_list, G, runs, results,
                   experiment, statistics>>

run_return ==
    /\ phase = "running"
    /\ t \notin RunRange(t_max)
    /\ phase' = "idle"
    /\ runs' = runs + 1
    /\ UNCHANGED <<params, error, engine, locals, results, experiment, statistics>>

(* ---------------------- Simulation.return_results ---------------------- *)
\* the dict handed to the caller holds the engine's own list objects
ReturnResults ==
    /\ results' = [key \in {"history_t", "history_tech_frequency"} |->
                     IF key = "history_t" THEN "self.history_t"
                     ELSE "self.history_tech_frequency"]
    /\ UNCHANGED <<params, phase, error, engine, locals, runs,
                   experiment, statistics>>

\* S.return_results() as Experiment.run calls it: after the run
return_results ==
    /\ phase = "idle"
    /\ runs = 1
    /\ ReturnResults

Next ==
    \/ Simulation_init
    \/ run_call
    \/ run_step
    \/ run_return
    \/ return_results

Spec == Init /\ [][Next]_vars

\* the states a call of the constructor can end in
ConstructionNext == Simulation_init

ConstructionSpec == Init /\ [][ConstructionNext]_vars

(* A caller other than Experiment.run may use the two public methods of a  *)
(* constructed engine in any order, and run() more than once.              *)
api_run ==
    /\ phase = "idle"
    /\ runs < MaxRuns
    /\ BeginRun

api_return_results ==
    /\ phase = "idle"
    /\ ReturnResults

ApiNext ==
    \/ Simulation_init
    \/ api_run
    \/ run_step
    \/ run_return
    \/ api_return_results

ApiSpec == Init /\ [][ApiNext]_vars

\* the loop of run() is sequential code: it takes its next iteration, and
\* returns when the range is exhausted
FairSpec == Spec /\ WF_vars(run_step) /\ WF_vars(run_return)

(* ------------------------------ claims --------------------------------- *)
Constructed == phase \in {"idle", "running"}
RecognisedNetworkTypes == {"Erdos-Renyi", "Barabasi-Albert", "Watts-Strogatz"}

\* the parameter ranges of the external interface
ValidConfiguration ==
    /\ n_agents > 0
    /\ n_technologies >= 2
    /\ n_initial_adopters >= 1
    /\ n_technologies * n_initial_adopters <= n_agents
    /\ reconsideration_probability >= 0
    /\ reconsideration_probability <= 100
    /\ t_max >= 0
    /\ network_type \in RecognisedNetworkTypes

Adopters == {a \in Agents : technology[a] # None}
Holders(tech) == {a \in Agents : technology[a] = tech}

\* a share a / b lies in [0, 1]
InUnitInterval(share) ==
    /\ share[2] > 0
    /\ share[1] >= 0
    /\ share[1] <= share[2]

\* C1: for every valid configuration, in every state from construction on,
\* the counters sum to at most n_agents and every recorded share is in [0,1].
C1_CountersBounded ==
    (Constructed /\ ValidConfiguration) =>
        /\ SumOver(tech_frequency, DOMAIN tech_frequency) <= n_agents
        /\ \A tech \in DOMAIN history_tech_frequency :
             \A i \in DOMAIN history_tech_frequency[tech] :
                InUnitInterval(history_tech_frequency[tech][i])

\* every agent holds a technology and the last step was a reconsideration
C1_Witness ==
    /\ phase = "running" /\ ValidConfiguration
    /\ steps >= 1 /\ chose /\ old # None /\ new # None /\ old # new
    /\ SumOver(tech_frequency, DOMAIN tech_frequency) = n_agents

\* a step was just taken by run()
StepTaken == phase = "running" /\ steps' = steps + 1

\* C2: whatever the exponent (valid configurations included), when no direct neighbour of the selected agent
\* holds a technology, choose() changes no technology, returns (None, None)
\* and the step leaves every counter unchanged.
C2_DegenerateChoose ==
    [][(StepTaken /\ chose' /\ ValidConfiguration
          /\ \A j \in get_neighbors(G, A') : technology[j] = None)
        => /\ technology' = technology
           /\ old' = None /\ new' = None
           /\ tech_frequency' = tech_frequency]_vars

\* C3: with reconsideration_probability = 0 an agent that holds a technology
\* keeps it in every later state; only None -> technology changes occur.
C3_NoReconsideration ==
    [][reconsideration_probability = 0 =>
        \A a \in Agents :
            technology[a] # None => technology'[a] = technology[a]]_vars

\* a first adoption happened, then an adopter was selected and skipped
C3_Witness ==
    /\ reconsideration_probability = 0
    /\ steps = 2 /\ ~chose /\ technology[A] # None
    /\ old = None /\ new # None

\* C4: after construction and one complete run() with t_max >= 0 the time
\* sequence and every share sequence have length t_max + 2.
C4_HistoryLength ==
    (phase = "idle" /\ runs = 1 /\ t_max >= 0) =>
        /\ Len(history_t) = t_max + 2
        /\ \A tech \in DOMAIN history_tech_frequency :
             Len(history_tech_frequency[tech]) = t_max + 2

C4_Witness ==
    /\ phase = "idle" /\ runs = 1 /\ t_max >= 1
    /\ n_technologies >= 2
    /\ Len(history_t) = t_max + 2

\* C5: run() terminates, and it has then executed exactly t_max + 1 steps,
\* whatever was selected and chosen on the way; there is no early stop.
C5_RunsFullHorizon ==
    /\ []((phase = "running" /\ t <= t_max) => ENABLED run_step)
    /\ (phase = "running" /\ t_max >= 0)
          ~> (phase = "idle" /\ runs >= 1 /\ steps = t_max + 1)

\* every agent already held the same technology before the last step, which
\* was executed all the same
C5_Witness ==
    /\ phase = "idle" /\ runs = 1 /\ t_max >= 1
    /\ steps = t_max + 1 /\ ~chose
    /\ n_technologies >= 2 /\ n_agents >= 2
    /\ \A a \in Agents : technology[a] = 0

\* C6: right after a successful construction exactly
\* n_technologies * n_initial_adopters distinct agents hold a technology,
\* n_initial_adopters per technology, all others hold None, every counter is
\* n_initial_adopters, and the history is one sample
\* n_initial_adopters / n_agents per technology with time index 0.
C6_Seeding ==
    (phase = "idle" /\ runs = 0) =>
        /\ Agents = range(0, n_agents)
        /\ Cardinality(Adopters) = n_technologies * n_initial_adopters
        /\ Technologies = range(0, n_technologies)
        /\ \A a \in Agents : technology[a] \in Technologies \cup {None}
        /\ DOMAIN tech_frequency = Technologies
        /\ DOMAIN history_tech_frequency = Technologies
        /\ \A tech \in Technologies :
            /\ Cardinality(Holders(tech)) = n_initial_adopters
            /\ tech_frequency[tech] = n_initial_adopters
            /\ history_tech_frequency[tech] =
                    <<Div(n_initial_adopters, n_agents)>>
        /\ history_t = <<0>>

C6_Witness ==
    /\ phase = "idle" /\ runs = 0
    /\ n_technologies >= 2 /\ n_initial_adopters >= 1
    /\ Cardinality(Adopters) = n_technologies * n_initial_adopters
    /\ Cardinality(Adopters) < n_agents

\* C7: when n_technologies * n_initial_adopters > n_agents or the network
\* type is not one of the three recognised names, construction ends in an
\* error and leaves no engine on which run() could execute a step; an engine
\* that was constructed never holds fewer adopters than requested.
C7_ConstructionFails ==
    /\ (phase # "new" /\ (n_technologies * n_initial_adopters > n_agents
                            \/ network_type \notin RecognisedNetworkTypes))
         => /\ phase = "failed"
            /\ error # NoError
            /\ Agents = {}
            /\ ~ENABLED run_call
            /\ ~ENABLED run_step
    /\ Constructed =>
            Cardinality(Adopters) >= n_technologies * n_initial_adopters

C7_Witness ==
    /\ phase = "failed" /\ error = "ValueError"
    /\ network_type = "Erdos-Renyi"
    /\ n_agents > 0
    /\ n_technologies * n_initial_adopters > n_agents

\* C8: the constructor rejects n_agents <= 0, n_technologies < 2,
\* n_initial_adopters < 1, a reconsideration_probability outside [0,1] and
\* t_max < 0, so no such engine exists or reaches run().
C8_ParametersValidated ==
    Constructed =>
        /\ n_agents > 0
        /\ n_technologies >= 2
        /\ n_initial_adopters >= 1
        /\ reconsideration_probability >= 0
        /\ reconsideration_probability <= 100
        /\ t_max >= 0

\* C9: a step of run() changes the technology of no agent other than the
\* selected one, and leaves the network edges, the set of agents and the
\* technology list as they were.
C9_ChooseFrame ==
    [][StepTaken =>
        /\ \A a \in Agents : a # A' => technology'[a] = technology[a]
        /\ Cardinality({a \in Agents : technology'[a] # technology[a]}) <= 1
        /\ DOMAIN technology' = DOMAIN technology
        /\ G' = G
        /\ technologies_list' = technologies_list]_vars

\* the selected agent changed its technology while two others hold one
C9_Witness ==
    /\ steps >= 1 /\ chose /\ new # None /\ old # new
    /\ n_agents >= 3
    /\ Cardinality(Adopters) >= 3
    /\ G # {}

\* the contents of the dict a caller holds after return_results()
Deref(ref) ==
    IF ref = "self.history_t" THEN history_t ELSE history_tech_frequency
Returned == DOMAIN results # {}
ResultValue == [key \in DOMAIN results |-> Deref(results[key])]

\* C10: return_results() changes no engine state, and a result once returned
\* is a snapshot that no later engine operation changes.
C10_ImmutableSnapshot ==
    [][ValidConfiguration =>
        /\ (~Returned /\ Returned') => engine' = engine
        /\ (Returned /\ Returned') => ResultValue' = ResultValue]_vars

(* ------------------- largest_and_second_largest_MS --------------------- *)
\* x <= y for two shares kept as fractions with positive denominators
ShareLeq(x, y) == x[1] * y[2] <= y[1] * x[2]

\* the shares the helper may be handed: counts over a common population
ShareValues == {Div(k, MaxCount) : k \in 0..MaxCount}
ShareLists == UNION {[1..len -> ShareValues] : len \in 0..MaxShares}

RECURSIVE InsertSorted(_, _)
InsertSorted(sorted, x) ==
    IF sorted = <<>> THEN <<x>>
    ELSE IF ShareLeq(x, Head(sorted)) THEN <<x>> \o sorted
    ELSE <<Head(sorted)>> \o InsertSorted(Tail(sorted), x)

\* variant: the shares are left in the order given
np_sort_Unsorted(seq) == seq

\* np.sort: the values in ascending order
RECURSIVE np_sort(_)
np_sort(seq) ==
    IF seq = <<>> THEN <<>>
    ELSE InsertSorted(np_sort(Tail(seq)), Head(seq))

\* variant: an index before the start is clamped to the first element
largest_and_second_largest_MS_Clamped(market_share) ==
    LET sorted == np_sort(market_share)
        len == Len(sorted)
    IN IF len < 1
       THEN [status |-> "IndexError", lms |-> <<>>, slms |-> <<>>]
       ELSE [status |-> "returned", lms |-> sorted[len],
             slms |-> sorted[IF len < 2 THEN 1 ELSE len - 1]]

\* the helper: sorted[-1] and sorted[-2]; an index beyond the length of the
\* array raises IndexError
largest_and_second_largest_MS(market_share) ==
    LET sorted == np_sort(market_share)
        len == Len(sorted)
    IN IF len < 1 \/ len < 2
       THEN [status |-> "IndexError", lms |-> <<>>, slms |-> <<>>]
       ELSE [status |-> "returned", lms |-> sorted[len],
             slms |-> sorted[len - 1]]

StatisticsInit ==
    /\ DefaultArguments
    /\ NoSimulation
    /\ NoExperiment
    /\ market_shares \in ShareLists
    /\ lms = <<>>
    /\ slms = <<>>
    /\ stats_status = "none"

call_largest_and_second_largest_MS ==
    /\ stats_status = "none"
    /\ LET r == largest_and_second_largest_MS(market_shares)
       IN /\ stats_status' = r.status
          /\ lms' = r.lms
          /\ slms' = r.slms
    /\ UNCHANGED <<params, phase, error, engine, locals, runs, results,
                   experiment, market_shares>>

StatisticsNext == call_largest_and_second_largest_MS

StatisticsSpec == StatisticsInit /\ [][StatisticsNext]_vars

\* the list with its elements rearranged by the permutation p of its indices
Rearranged(seq, p) == [k \in DOMAIN seq |-> seq[p[k]]]

\* C11: for at least two shares the helper returns (lms, slms) with lms the
\* maximum, lms >= slms >= the minimum, slms the second element of the
\* shares in descending order (a tie for the largest gives lms = slms), and
\* the same pair for every reordering of the input.
C11_TopTwo ==
    (stats_status # "none" /\ Len(market_shares) >= 2) =>
        /\ stats_status = "returned"
        /\ \A k \in DOMAIN market_shares : ShareLeq(market_shares[k], lms)
        /\ ShareLeq(slms, lms)
        /\ \E k \in DOMAIN market_shares : ShareLeq(market_shares[k], slms)
        /\ \E k1, k2 \in DOMAIN market_shares :
            /\ k1 # k2
            /\ market_shares[k1] = lms
            /\ market_shares[k2] = slms
            /\ \A k \in DOMAIN market_shares \ {k1, k2} :
                    ShareLeq(market_shares[k], slms)
        /\ \A p \in Permutations(DOMAIN market_shares) :
            largest_and_second_largest_MS(Rearranged(market_shares, p))
                = [status |-> "returned", lms |-> lms, slms |-> slms]

\* three shares given out of order, with a tie for the largest
C11_Witness ==
    /\ stats_status = "returned"
    /\ Len(market_shares) = 3
    /\ lms = slms
    /\ market_shares[1] = lms
    /\ market_shares[2] # lms
    /\ market_shares[3] = lms

\* C12: with zero or one share the helper raises an error and returns no
\* pair of values.
C12_TooFewShares ==
    (stats_status # "none" /\ Len(market_shares) < 2) =>
        /\ stats_status = "IndexError"
        /\ lms = <<>>
        /\ slms = <<>>

C12_Witness ==
    /\ Len(market_shares) = 1
    /\ stats_status = "IndexError"

(* ----------------------------- Experiment ------------------------------ *)
\* agent numbers around the least population the default seeding needs
ExperimentAgentNumbers ==
    (Default_n_technologies * Default_n_initial_adopters - 1)..MaxExperimentAgents
ReplicationCounts == 0..MaxReplications

\* the counters a Simulation can end its run with: every seeded agent still
\* holds some technology and no agent is counted twice
FinalCounters(n, K, m) ==
    {c \in [range(0, K) -> 0..n] :
        /\ SumOver(c, range(0, K)) >= K * m
        /\ SumOver(c, range(0, K)) <= n}

\* results["history_tech_frequency"] of a Simulation that has run: of the
\* t_max + 2 samples of each technology the first and the last are kept
SimulationHistories(n, K, m) ==
    {[tech \in range(0, K) |-> <<Div(m, n), Div(c[tech], n)>>] :
        c \in FinalCounters(n, K, m)}

\* variant: the first sample of each history is read
FinalMarketShares_First(history, tech_list) ==
    [k \in DOMAIN tech_list |-> history[tech_list[k]][1]]

\* market_shares: history[-1] for every key, in the order of the keys
FinalMarketShares(history, tech_list) ==
    [k \in DOMAIN tech_list |->
        history[tech_list[k]][Len(history[tech_list[k]])]]

\* EX = Experiment(network_type, agent_number, number_of_replications); each
\* Simulation is created with these two arguments and the defaults
ExperimentInit ==
    /\ agent_number \in ExperimentAgentNumbers
    /\ number_of_replications \in ReplicationCounts
    /\ network_type \in NetworkTypes
    /\ n_agents = agent_number
    /\ t_max = Default_t_max
    /\ n_technologies = Default_n_technologies
    /\ n_initial_adopters = Default_n_initial_adopters
    /\ reconsideration_probability = Default_reconsideration_probability
    /\ choice_function_exponent = Default_choice_function_exponent
    /\ NoSimulation
    /\ exp_phase = "new"
    /\ replication = None
    /\ list_largest_m_shares = <<>>
    /\ list_second_largest_m_shares = <<>>
    /\ NoStatistics

Experiment_run_call ==
    /\ exp_phase = "new"
    /\ exp_phase' = "running"
    /\ replication' = 0
    /\ UNCHANGED <<params, phase, error, engine, locals, runs, results,
                   agent_number, number_of_replications,
                   list_largest_m_shares, list_second_largest_m_shares,
                   statistics>>

\* one iteration of the loop of Experiment.run; an exception of the
\* constructor or of the helper ends the run
Experiment_run_replication ==
    /\ exp_phase = "running"
    /\ replication \in range(0, number_of_replications)
    /\ LET err == ConstructionError(network_type, n_agents, n_technologies,
                                    n_initial_adopters)
       IN IF err # NoError
          THEN /\ exp_phase' = "failed"
               /\ error' = err
               /\ UNCHANGED <<replication, history_tech_frequency,
                              list_largest_m_shares,
                              list_second_largest_m_shares, statistics>>
          ELSE /\ error' = NoError
               /\ history_tech_frequency' \in
                    SimulationHistories(n_agents, n_technologies,
                                        n_initial_adopters)
               /\ market_shares' =
                    FinalMarketShares(history_tech_frequency',
                                      RangeList(n_technologies))
               /\ LET r == largest_and_second_largest_MS(market_shares')
                  IN /\ stats_status' = r.status
                     /\ lms' = r.lms
                     /\ slms' = r.slms
                     /\ IF r.status = "returned"
                        THEN /\ list_largest_m_shares' =
                                    Append(list_largest_m_shares, r.lms)
                             /\ list_second_largest_m_shares' =
                                    Append(list_second_largest_m_shares, r.slms)
                             /\ replication' = replication + 1
                             /\ exp_phase' = "running"
                        ELSE /\ exp_phase' = "failed"
                             /\ UNCHANGED <<replication, list_largest_m_shares,
                                            list_second_largest_m_shares>>
    /\ UNCHANGED <<params, phase, technologies_list, tech_frequency, G,
                   technology, history_t, locals, runs, results,
                   agent_number, number_of_replications>>

Experiment_run_return ==
    /\ exp_phase = "running"
    /\ replication \notin range(0, number_of_replications)
    /\ exp_phase' = "done"
    /\ UNCHANGED <<params, phase, error, engine, locals, runs, results,
                   agent_number, number_of_replications, replication,
                   list_largest_m_shares, list_second_largest_m_shares,
                   statistics>>

ExperimentNext ==
    \/ Experiment_run_call
    \/ Experiment_run_replication
    \/ Experiment_run_return

ExperimentSpec == ExperimentInit /\ [][ExperimentNext]_vars

\* s is pre extended by exactly one element
ExtendsByOne(pre, s) ==
    /\ Len(s) = Len(pre) + 1
    /\ \A k \in DOMAIN pre : s[k] = pre[k]

\* C13: each replication appends exactly one value to each result sequence,
\* the largest and the second largest of the final shares of its own
\* Simulation; no earlier entry is removed or rewritten; when run() completes
\* both sequences have length number_of_replications.
C13_ResultSequences ==
    [][/\ \A k \in DOMAIN list_largest_m_shares :
            /\ k \in DOMAIN list_largest_m_shares'
            /\ list_largest_m_shares'[k] = list_largest_m_shares[k]
       /\ \A k \in DOMAIN list_second_largest_m_shares :
            /\ k \in DOMAIN list_second_largest_m_shares'
            /\ list_second_largest_m_shares'[k] = list_second_largest_m_shares[k]
       /\ (exp_phase = "running" /\ replication' = replication + 1) =>
            LET final == [tech \in DOMAIN history_tech_frequency' |->
                            history_tech_frequency'[tech][
                                Len(history_tech_frequency'[tech])]]
                largest == list_largest_m_shares'[Len(list_largest_m_shares')]
                second == list_second_largest_m_shares'[
                                Len(list_second_largest_m_shares')]
            IN /\ ExtendsByOne(list_largest_m_shares, list_largest_m_shares')
               /\ ExtendsByOne(list_second_largest_m_shares,
                               list_second_largest_m_shares')
               /\ Len(list_largest_m_shares') = replication'
               /\ \A tech \in DOMAIN final : ShareLeq(final[tech], largest)
               /\ \E t1, t2 \in DOMAIN final :
                    /\ t1 # t2
                    /\ final[t1] = largest
                    /\ final[t2] = second
                    /\ \A tech \in DOMAIN final \ {t1, t2} :
                            ShareLeq(final[tech], second)
       /\ exp_phase' = "done" =>
            /\ Len(list_largest_m_shares') = number_of_replications
            /\ Len(list_second_largest_m_shares') = number_of_replications
      ]_vars

\* a completed run of two replications with different outcomes
C13_Witness ==
    /\ exp_phase = "done"
    /\ number_of_replications = 2
    /\ Len(list_largest_m_shares) = 2
    /\ Len(list_second_largest_m_shares) = 2
    /\ list_largest_m_shares[1] # list_largest_m_shares[2]
    /\ list_second_largest_m_shares[1] # list_largest_m_shares[1]

(* ------------------------- choice and step rules ------------------------ *)
\* C15: with choice_function_exponent = 0 a choosing agent gives weight 1 to
\* every technology at least one neighbour holds and weight 0 to every other
\* technology, and the technology it selects is held by a neighbour.
C15_ZeroExponentWeights ==
    [][(StepTaken /\ ValidConfiguration /\ choice_function_exponent = 0
            /\ chose') =>
        LET counts == neighbor_tech_frequency(technology, G, A')
            weights == tech_probability(technology, G, A',
                                        choice_function_exponent)
        IN /\ \A tech \in Technologies :
                weights[tech] = IF counts[tech] > 0 THEN 1 ELSE 0
           /\ new' # None => counts[new'] > 0
      ]_vars

\* C16: between steps the counter of every technology is the number of agents
\* that hold it.
C16_CounterConsistency ==
    Constructed =>
        \A tech \in Technologies :
            tech_frequency[tech] = Cardinality(Holders(tech))

\* a reconsidering agent has re-selected the technology it held
C16_Witness ==
    /\ phase = "running"
    /\ steps > 0
    /\ chose
    /\ old # None
    /\ new = old
    /\ technology[A] = new
    /\ tech_frequency[new] = Cardinality(Holders(new))

\* C17: in every step an agent without technology invokes choose(); a holder
\* invokes it exactly when its draw is below reconsideration_probability; a
\* step without choose() changes no technology and no counter; every step
\* appends one time index and one share sample per technology.
C17_ActivationRule ==
    [][StepTaken =>
        /\ technology[A'] = None => chose'
        /\ technology[A'] # None =>
                \E draw \in RandomDraws :
                    chose' <=> (draw < reconsideration_probability)
        /\ ~chose' =>
                /\ technology[A'] # None
                /\ technology' = technology
                /\ tech_frequency' = tech_frequency
        /\ Len(history_t') = Len(history_t) + 1
        /\ \A tech \in DOMAIN history_tech_frequency :
                Len(history_tech_frequency'[tech]) =
                    Len(history_tech_frequency[tech]) + 1
      ]_vars

\* a holder was selected, its draw failed, and the step was recorded
C17_Witness ==
    /\ phase = "running"
    /\ steps = 1
    /\ ~chose
    /\ technology[A] # None
    /\ reconsideration_probability = 50
    /\ Len(history_t) = 2
    /\ \E other \in Agents : technology[other] = None

\* C18: for a positive exponent the technology choose() selects is held by a
\* neighbour of the choosing agent, and a technology whose counter is 0 keeps
\* the counter 0.
C18_NeighbourHeld ==
    [][(StepTaken /\ choice_function_exponent > 0) =>
        /\ (chose' /\ new' # None) =>
                /\ technology'[A'] = new'
                /\ \E j \in get_neighbors(G, A') : technology[j] = new'
        /\ \A tech \in Technologies :
                tech_frequency[tech] = 0 =>
                    /\ tech_frequency'[tech] = 0
                    /\ Holders(tech)' = {}
      ]_vars

\* a technology lost its last holder in the first step and an agent chose
\* again in the second
C18_Witness ==
    /\ phase = "running"
    /\ steps = 2
    /\ choice_function_exponent > 0
    /\ chose
    /\ new # None
    /\ \E tech \in Technologies :
        /\ history_tech_frequency[tech][1][1] > 0
        /\ history_tech_frequency[tech][2][1] = 0
        /\ tech_frequency[tech] = 0

\* C19: an agent that holds a technology holds one in every later state, and
\* a step leaves the number of adopters unchanged or raises it by one.
C19_AdoptionIrreversible ==
    [][/\ \A a \in Agents : technology[a] # None =>
            (a \in Agents' /\ technology'[a] # None)
       /\ StepTaken =>
            /\ Cardinality(Adopters') \in
                    {Cardinality(Adopters), Cardinality(Adopters) + 1}
            /\ SumOver(tech_frequency', Technologies) \in
                    {SumOver(tech_frequency, Technologies),
                     SumOver(tech_frequency, Technologies) + 1}
      ]_vars

\* a holder has switched to another technology
C19_Witness ==
    /\ phase = "running"
    /\ chose
    /\ old # None
    /\ new # None
    /\ new # old
    /\ technology[A] = new

(* --------------------------- history alignment -------------------------- *)
\* every share history is as long as history_t and ends with the current share
HistoryInStep ==
    \A tech \in Technologies :
        /\ Len(history_tech_frequency[tech]) = Len(history_t)
        /\ history_tech_frequency[tech][Len(history_t)] =
                Div(tech_frequency[tech], n_agents)

\* C20 as stated: the histories are in step with history_t and each time
\* index is greater than the one before it.
C20_StrictlyOrdered ==
    Constructed =>
        /\ HistoryInStep
        /\ \A k \in 2..Len(history_t) : history_t[k] > history_t[k - 1]

\* C20: until the first run() returns, the histories are in step with
\* history_t, and history_t is 0 from construction followed by 0, 1, 2, ...
\* from the steps, so no entry is smaller than the one before it.
C20_HistoryAligned ==
    Constructed =>
        /\ HistoryInStep
        /\ Len(history_t) = steps + 1
        /\ history_t[1] = 0
        /\ \A k \in 2..Len(history_t) :
                /\ history_t[k] = k - 2
                /\ history_t[k] >= history_t[k - 1]

\* two steps have been recorded after the construction sample
C20_Witness ==
    /\ phase = "running"
    /\ steps = 2
    /\ history_t = <<0, 0, 1>>
    /\ n_technologies = 2
    /\ \A tech \in Technologies : Len(history_tech_frequency[tech]) = 3
    /\ \E tech \in Technologies :
            history_tech_frequency[tech][3] # history_tech_frequency[tech][1]
====
